---- MODULE Spec2Model ----
(***************************************************************************)
(* Model of build_all.py (Embench build orchestrator) and of               *)
(* pylib/run_sim.py.                                                       *)
(*                                                                         *)
(* A Python str that is later formatted or split is a sequence of atoms:   *)
(* an atom is a single space " ", a placeholder "{0}" / "{1}", or a chunk  *)
(* of characters holding neither.  A str that is only ever passed on whole *)
(* (a tool name, an argv token) is a TLA+ string.  A dict is a function    *)
(* whose DOMAIN is the set of keys that are bound.                         *)
(***************************************************************************)
EXTENDS Integers, Sequences, FiniteSets, TLC

VARIABLES
    pc,          \* position of main(): the call that runs next
    exitCode,    \* process exit status once pc = "exited", else -1
    calls,       \* the calls main() has made so far, in order
    args,        \* argparse namespace: option |-> value, unset options absent
    cfgFile,     \* bindings made by arch.cfg / chip.cfg / board.cfg
    cfgStatus,   \* per level: "absent", "ok", "invalid", "permerror"
    gp,          \* embench_core.gp, the global parameter dictionary
    dirStatus,   \* config directories: "ok", "missing", "unreadable"
    bdExists,    \* the build root directory exists
    bdW,         \* the build root, when it exists, is writable
    parentW,     \* the parent of the build root is writable
    mirrors,     \* build-mirror directories that exist under the build root
    denied,      \* build-mirror directories whose creation is refused
    src,         \* source file of a unit: modification time, NoFile if none
    obj,         \* object file of a unit: modification time, NoFile if none
    clock,       \* current time, the mtime given to a file written now
    faults,      \* deviations from a clean first build met so far
    benchmarks,  \* list returned by find_benchmarks
    idx,         \* index of the benchmark the loop of main() is at
    successful,  \* main()'s flag (read only after compile_support set it)
    supportRes,  \* "none", or what compile_support returned: "ok", "failed"
    compiled,    \* per benchmark: "none", or compile_benchmark's result
    linked,      \* per benchmark: "none", or link_benchmark's result
    ccRuns,      \* per unit: compiler processes spawned for it
    ccRes,       \* per unit: "none", or what the last compile_file returned
    madeDirs,    \* build-mirror directories this run created with makedirs
    ldRuns,      \* per benchmark: linker processes spawned for it
    ldArgs,      \* per benchmark: argv of the last linker process, <<>> if none
    emitted      \* log.info messages (the run's results), in order

cfgvars   == <<args, cfgFile, cfgStatus, gp>>
dirvars   == <<dirStatus, bdExists, bdW, parentW>>
treevars  == <<mirrors, denied, src, obj, clock>>
buildvars == <<benchmarks, idx, successful, supportRes, compiled, linked,
               ccRuns, ccRes, madeDirs, ldRuns, ldArgs, emitted>>
vars == <<pc, exitCode, calls, args, cfgFile, cfgStatus, gp, dirStatus,
          bdExists, bdW, parentW, mirrors, denied, src, obj, clock, faults,
          benchmarks, idx, successful, supportRes, compiled, linked,
          ccRuns, ccRes, madeDirs, ldRuns, ldArgs, emitted>>

----------------------------------------------------------------------------
(* Bounds *)

\* Number of (source, key) bindings spread over arch/chip/board/user.
MaxSettings == 2

\* Number of ways a run departs from a clean first build in which every
\* directory is in place and every tool invocation succeeds.
MaxFaults == 2

\* Largest modification time.
MaxClock == 2

\* Number of calls and source changes when compile_file is driven on its own.
MaxCalls == 3

----------------------------------------------------------------------------
(* Strings *)

SP == " "

\* str.format: positional substitution of {0} and {1}.
RECURSIVE format(_, _)
format(pat, fargs) ==
    IF pat = <<>> THEN <<>>
    ELSE (IF Head(pat) = "{0}" THEN fargs[1]
          ELSE IF Head(pat) = "{1}" THEN fargs[2]
          ELSE <<Head(pat)>>) \o format(Tail(pat), fargs)

\* str.split(sep=' '): cut at every single space, empty pieces kept.
RECURSIVE splitAcc(_, _)
splitAcc(s, cur) ==
    IF s = <<>> THEN <<cur>>
    ELSE IF Head(s) = SP THEN <<cur>> \o splitAcc(Tail(s), "")
    ELSE splitAcc(Tail(s), cur \o Head(s))

split(s) == splitAcc(s, "")

\* os.path.join of a directory and one component.
pathjoin(dir, name) == dir \o <<"/">> \o name

\* str(n) for an int, as a str.
str(n) == <<ToString(n)>>

----------------------------------------------------------------------------
(* Configuration keys *)

StrKeys  == {"cc", "ld"}
PatKeys  == {"cc_define1_pattern", "cc_define2_pattern", "cc_incdir_pattern",
             "cc_input_pattern", "cc_output_pattern",
             "ld_input_pattern", "ld_output_pattern"}
LibKeys  == {"user_libs", "dummy_libs"}
IntKeys  == {"cpu_mhz", "warmup_heat"}
FlagKeys == {"cflags", "ldflags"}

NonAdditiveKeys == StrKeys \cup PatKeys \cup LibKeys \cup IntKeys
ConfKeys == NonAdditiveKeys \cup FlagKeys

FileLevels == <<"arch", "chip", "board">>
Levels     == <<"default", "arch", "chip", "board", "user">>

EmptyDict == [k \in {} |-> 0]

\* d with key k bound to v (dict item assignment).
setitem(d, k, v) == [x \in DOMAIN d \cup {k} |-> IF x = k THEN v ELSE d[x]]

----------------------------------------------------------------------------
(* Configuration sources *)

\* The falsy value of an option's type: '' for a str, 0 for an int.
falsy(k) == IF k \in StrKeys THEN "" ELSE IF k \in IntKeys THEN 0 ELSE <<>>

\* "if args.<k>:" -- the option was given and its value is truthy.
given(a, k) == k \in DOMAIN a /\ a[k] # falsy(k)

\* The defaults without the two library lists.
populate_defaults_nolibs ==
    [k \in ConfKeys \ ({"ld"} \cup LibKeys) |->
        CASE k = "cc"       -> "cc"
          [] k \in FlagKeys -> <<>>
          [] k \in IntKeys  -> 1
          [] k = "cc_define1_pattern" -> <<"-D", "{0}">>
          [] k = "cc_define2_pattern" -> <<"-D", "{0}", "=", "{1}">>
          [] k = "cc_incdir_pattern"  -> <<"-I", "{0}">>
          [] k \in {"cc_input_pattern", "ld_input_pattern"} -> <<"{0}">>
          [] OTHER -> <<"-o", SP, "{0}">>]

\* The dictionary populate_defaults returns: every key but ld.
populate_defaults ==
    [k \in ConfKeys \ {"ld"} |->
        CASE k = "cc"                 -> "cc"
          [] k = "cflags"             -> <<>>
          [] k = "ldflags"            -> <<>>
          [] k = "cc_define1_pattern" -> <<"-D", "{0}">>
          [] k = "cc_define2_pattern" -> <<"-D", "{0}", "=", "{1}">>
          [] k = "cc_incdir_pattern"  -> <<"-I", "{0}">>
          [] k = "cc_input_pattern"   -> <<"{0}">>
          [] k = "cc_output_pattern"  -> <<"-o", SP, "{0}">>
          [] k = "ld_input_pattern"   -> <<"{0}">>
          [] k = "ld_output_pattern"  -> <<"-o", SP, "{0}">>
          [] k = "user_libs"          -> <<>>
          [] k = "dummy_libs"         -> <<>>
          [] k = "cpu_mhz"            -> 1
          [] k = "warmup_heat"        -> 1]

\* What is stored for option k: flag and library options are split into
\* their space-separated tokens, the others are stored as they are.
stored(k, v) == IF k \in FlagKeys \cup LibKeys THEN split(v) ELSE v

\* conf[k] = ... args.k ... for every k of ks that was given, other keys kept.
putGiven(conf, a, ks) ==
    [k \in DOMAIN conf \cup {x \in ks : given(a, x)} |->
        IF k \in ks /\ given(a, k) THEN stored(k, a[k]) ELSE conf[k]]

\* Writes into the dictionary it is handed.
populate_user_commands(conf, a) == putGiven(conf, a, StrKeys)

\* The next four start with "conf = {}": they fill and return a dictionary
\* of their own and leave the one they were handed as it was.
populate_user_flags(conf, a) == putGiven(EmptyDict, a, FlagKeys)

populate_user_patterns(conf, a) == putGiven(EmptyDict, a, PatKeys)

populate_user_libs(conf, a) == putGiven(EmptyDict, a, LibKeys)

populate_user_defs(conf, a) == putGiven(EmptyDict, a, IntKeys)

\* Every call is made for its effect on conf; the return values are dropped.
populate_user(a) ==
    LET conf     == populate_user_commands(EmptyDict, a)
        flags    == populate_user_flags(conf, a)
        patterns == populate_user_patterns(conf, a)
        libs     == populate_user_libs(conf, a)
        defs     == populate_user_defs(conf, a)
    IN  conf

----------------------------------------------------------------------------
(* Merge *)

\* One pass of the inner loop of set_parameters over a source's items.
mergeLevel(g, conf) ==
    [k \in DOMAIN g \cup DOMAIN conf |->
        IF k \notin DOMAIN conf THEN g[k]
        ELSE IF (k = "cflags") \/ (k = "ldflags") THEN g[k] \o conf[k]
        ELSE conf[k]]

RECURSIVE mergeAll(_, _, _)
mergeAll(g, config, lv) ==
    IF lv = <<>> THEN g
    ELSE mergeAll(mergeLevel(g, config[Head(lv)]), config, Tail(lv))

\* The linker defaulted to the built-in compiler name, not the resolved one.
defaultLd_builtin(g) ==
    IF "ld" \notin DOMAIN g THEN setitem(g, "ld", populate_defaults["cc"]) ELSE g

\* "if 'ld' not in gp: gp['ld'] = gp['cc']"
defaultLd(g) == IF "ld" \notin DOMAIN g THEN setitem(g, "ld", g["cc"]) ELSE g

upper(k) == IF k = "cpu_mhz" THEN <<"CPU_MHZ">> ELSE <<"WARMUP_HEAT">>

incdirFlag(g, d) == split(format(g["cc_incdir_pattern"], <<g[d]>>))

define2Flag(g, k) == split(format(g["cc_define2_pattern"], <<upper(k), str(g[k])>>))

\* The include directories taken in the order arch, chip, board, support.
internalFlags_archfirst(g) ==
    incdirFlag(g, "archdir") \o incdirFlag(g, "chipdir")
    \o incdirFlag(g, "boarddir") \o incdirFlag(g, "supportdir")
    \o define2Flag(g, "cpu_mhz") \o define2Flag(g, "warmup_heat")

\* The tokens add_internal_flags appends, in the order it appends them.
internalFlags(g) ==
    incdirFlag(g, "supportdir") \o incdirFlag(g, "boarddir")
    \o incdirFlag(g, "chipdir") \o incdirFlag(g, "archdir")
    \o define2Flag(g, "cpu_mhz") \o define2Flag(g, "warmup_heat")

add_internal_flags(g) == [g EXCEPT !["cflags"] = @ \o internalFlags(g)]

\* Executables shutil.which finds on the search path.
OnPath == {"cc", "arch-cc", "chip-cc", "board-cc", "user-cc",
           "arch-ld", "chip-ld", "board-ld", "user-ld"}

\* TRUE when validate_tools returns, FALSE when it exits.
validate_tools(g) == g["cc"] \in OnPath /\ g["ld"] \in OnPath

----------------------------------------------------------------------------
(* The repository and the build tree *)

NoFile == -1

RootDir == <<"/", "repo">>

isabs(path) == path # <<>> /\ Head(path) = "/"

\* Benchmark directories in discovery order, and os.listdir of each one
\* as (root, extension) pairs.
Benchmarks == <<"b1", "b2">>

Listing == [b1 |-> << <<"f1", ".c">>, <<"notes", ".h">>, <<"f2", ".c">> >>,
            b2 |-> << <<"g1", ".c">> >>]

BenchSet == {Benchmarks[i] : i \in DOMAIN Benchmarks}

unitOf(bench, f_root) == bench \o "/" \o f_root

BenchUnits(bench) ==
    {unitOf(bench, Listing[bench][i][1]) :
        i \in {j \in DOMAIN Listing[bench] : Listing[bench][j][2] = ".c"}}

Sources == {"arch", "chip", "board", "user"}

\* Values the sources bind: each source has its own value for a key.
listVal(s) == <<s \o "1", s \o "2">>

patVal(s, k) ==
    (CASE s = "arch"  -> <<"-A">>
       [] s = "chip"  -> <<"-C", SP>>
       [] s = "board" -> <<"/B">>
       [] s = "user"  -> <<"--u", SP, "-U">>)
    \o <<"{0}">> \o (IF k = "cc_define2_pattern" THEN <<"=", "{1}">> ELSE <<>>)

intVal(s) == CASE s = "arch" -> 2 [] s = "chip" -> 3 [] s = "board" -> 4
               [] s = "user" -> 5

\* What a configuration file binds k to, or the text of the user's option.
Vals(s, k) ==
    IF k \in StrKeys THEN
        {s \o "-" \o k} \cup (IF s = "user" /\ k = "cc" THEN {"nocc", ""} ELSE {})
                       \cup (IF s = "board" /\ k = "ld" THEN {"nold"} ELSE {})
    ELSE IF k \in PatKeys THEN {patVal(s, k)}
    ELSE IF k \in IntKeys THEN
        {intVal(s)} \cup (IF s = "user" /\ k = "cpu_mhz" THEN {0} ELSE {})
    ELSE IF s = "user" THEN {<<"user1", SP, "user2">>}
    ELSE {listVal(s)}

AllLibs == UNION {{listVal(s)[1], listVal(s)[2]} : s \in Sources}

dummyUnit(dlib) == "dummy-" \o dlib

levelUnit(lv) == lv \o "support"

LevelUnits == {levelUnit(FileLevels[i]) : i \in DOMAIN FileLevels}

Units == {"beebsc", "main"} \cup {dummyUnit(l) : l \in AllLibs}
         \cup LevelUnits \cup UNION {BenchUnits(b) : b \in BenchSet}

MirrorDirs == {"bd_supportdir", "bd_archdir", "bd_chipdir", "bd_boarddir"}
              \cup BenchSet

\* The build-mirror directory the object of a unit lives in.
mirrorOf(u) ==
    IF u \in LevelUnits
    THEN CHOOSE d \in MirrorDirs :
            \E i \in DOMAIN FileLevels :
                u = levelUnit(FileLevels[i]) /\ d = "bd_" \o FileLevels[i] \o "dir"
    ELSE IF \E b \in BenchSet : u \in BenchUnits(b)
    THEN CHOOSE b \in BenchSet : u \in BenchUnits(b)
    ELSE "bd_supportdir"

\* os.makedirs creates the missing parents too: the chip and board mirrors
\* are bd/config/<arch>/chips/<chip> and bd/config/<arch>/boards/<board>.
withParents(d) ==
    IF d \in {"bd_chipdir", "bd_boarddir"} THEN {d, "bd_archdir"} ELSE {d}

----------------------------------------------------------------------------
(* Starting states.  A starting state is the clean first build (every      *)
(* directory in place, no build root, no option given, no configuration    *)
(* file) changed in the ways a set D of departures names.                  *)

SettingDevs ==
    UNION {{<<"set", s, k, v>> : v \in Vals(s, k)} : s \in Sources, k \in ConfKeys}

CfgDevs == {<<"cfg", l, st>> : l \in {"arch", "chip", "board"},
                               st \in {"invalid", "permerror"}}

DirDevs == {<<"dir", l, st>> : l \in {"arch", "chip", "board"},
                               st \in {"missing", "unreadable"}}

NullDevs == {<<"null", l>> : l \in {"arch", "chip", "board"}}

BdDevs == {<<"bd", "exists">>, <<"bd", "clean">>, <<"bd", "readonly">>,
           <<"bd", "parent_readonly">>}

SrcDevs == {<<"src", u>> : u \in LevelUnits}

DeniedDevs == {<<"denied", d>> : d \in MirrorDirs}

\* Settings that change which files a build compiles and links.
BuildSettingDevs == {<<"set", "chip", "dummy_libs", listVal("chip")>>,
                     <<"set", "board", "ld", "nold">>,
                     <<"set", "arch", "ldflags", listVal("arch")>>,
                     <<"set", "board", "user_libs", listVal("board")>>}

PriorUnits == Units \ {dummyUnit(l) : l \in AllLibs \ {listVal("chip")[1], listVal("chip")[2]}}

ObjDevs == {<<"obj", u, st>> : u \in PriorUnits, st \in {"fresh", "stale"}}

BuildDevs == BuildSettingDevs \cup CfgDevs \cup DirDevs \cup NullDevs
             \cup BdDevs \cup SrcDevs \cup DeniedDevs \cup ObjDevs

\* What a departure is about: two departures of one set differ in it.
slot(d) == IF d[1] = "set" THEN <<d[1], d[2], d[3]>>
           ELSE IF d[1] \in {"cfg", "dir", "obj"} THEN <<d[1], d[2]>>
           ELSE d

RECURSIVE SetsUpTo(_, _)
SetsUpTo(U, n) ==
    IF n = 0 THEN {{}}
    ELSE LET P == SetsUpTo(U, n - 1)
         IN  P \cup UNION {{q \cup {d} : d \in {e \in U : \A x \in q : slot(x) # slot(e)}} : q \in P}

has(D, d) == d \in D

bound(D, s) == {k \in ConfKeys : \E d \in D : d[1] = "set" /\ d[2] = s /\ d[3] = k}

valOf(D, s, k) == (CHOOSE d \in D : d[1] = "set" /\ d[2] = s /\ d[3] = k)[4]

statusOf(D, tag, l, dflt) ==
    IF \E d \in D : d[1] = tag /\ d[2] = l
    THEN (CHOOSE d \in D : d[1] = tag /\ d[2] = l)[3]
    ELSE dflt

InitMain(D) ==
    /\ exitCode = -1
    /\ calls = <<>>
    /\ args = [k \in {"builddir", "arch", "chip", "board", "clean"} \cup bound(D, "user") |->
                 CASE k = "builddir" -> <<"bd">>
                   [] k = "arch"     -> IF has(D, <<"null", "arch">>) THEN <<>> ELSE <<"arch0">>
                   [] k = "chip"     -> IF has(D, <<"null", "chip">>) THEN <<>> ELSE <<"chip0">>
                   [] k = "board"    -> IF has(D, <<"null", "board">>) THEN <<>> ELSE <<"board0">>
                   [] k = "clean"    -> has(D, <<"bd", "clean">>)
                   [] OTHER          -> valOf(D, "user", k)]
    /\ cfgFile = [l \in {"arch", "chip", "board"} |->
                    [k \in bound(D, l) |-> valOf(D, l, k)]]
    /\ cfgStatus = [l \in {"arch", "chip", "board"} |->
                    statusOf(D, "cfg", l, IF bound(D, l) = {} THEN "absent" ELSE "ok")]
    /\ gp = [k \in {"rootdir"} |-> RootDir]
    /\ dirStatus = [l \in {"arch", "chip", "board"} |-> statusOf(D, "dir", l, "ok")]

InitTree(D) ==
    /\ bdExists = (has(D, <<"bd", "exists">>) \/ has(D, <<"bd", "readonly">>)
                   \/ \E d \in D : d[1] = "obj")
    /\ bdW = ~has(D, <<"bd", "readonly">>)
    /\ parentW = ~has(D, <<"bd", "parent_readonly">>)
    /\ mirrors = UNION {withParents(mirrorOf(d[2])) : d \in {e \in D : e[1] = "obj"}}
    /\ denied = {d[2] : d \in {e \in D : e[1] = "denied"}}
    /\ src = [u \in Units |->
                IF u \in LevelUnits /\ ~has(D, <<"src", u>>) THEN NoFile ELSE 1]
    /\ obj = [u \in Units |->
                CASE has(D, <<"obj", u, "fresh">>) -> 1
                  [] has(D, <<"obj", u, "stale">>) -> 0
                  [] OTHER -> NoFile]
    /\ clock = 1

InitBuild(nfaults) ==
    /\ faults = nfaults
    /\ benchmarks = <<>>
    /\ idx = 1
    /\ successful = TRUE
    /\ supportRes = "none"
    /\ compiled = [b \in BenchSet |-> "none"]
    /\ linked = [b \in BenchSet |-> "none"]
    /\ ccRuns = [u \in Units |-> 0]
    /\ ccRes = [u \in Units |-> "none"]
    /\ madeDirs = {}
    /\ ldRuns = [b \in BenchSet |-> 0]
    /\ ldArgs = [b \in BenchSet |-> <<>>]
    /\ emitted = <<>>

InitFrom(D, nfaults) ==
    pc = "create_builddir" /\ InitMain(D) /\ InitTree(D) /\ InitBuild(nfaults)

\* Runs that differ in their configuration sources only.
InitCfg == \E D \in SetsUpTo(SettingDevs \cup CfgDevs, MaxSettings) : InitFrom(D, 0)

\* Runs that differ in the state of the repository and of the build tree.
Init == \E D \in SetsUpTo(BuildDevs, MaxFaults) : InitFrom(D, Cardinality(D))

----------------------------------------------------------------------------
(* main(), up to the resolved configuration *)

\* sys.exit(1), or an exception nobody catches: the process ends with 1.
Exit1 == pc' = "exited" /\ exitCode' = 1

pathjoin2(dir, a, b) == pathjoin(pathjoin(dir, a), b)

\* main() with the call of compile_support left out.
mainNext_nosupport(p) ==
    CASE p = "create_builddir" -> "validate_args"
      [] p = "validate_args"   -> "find_benchmarks"
      [] p = "find_benchmarks" -> "set_parameters"
      [] p = "set_parameters"  -> IF benchmarks = <<>> THEN "report"
                                  ELSE "compile_benchmark"

\* The statement main() goes on to after the call p returned (lines 675-697).
mainNext(p) ==
    CASE p = "create_builddir" -> "validate_args"
      [] p = "validate_args"   -> "find_benchmarks"
      [] p = "find_benchmarks" -> "set_parameters"
      [] p = "set_parameters"  -> "compile_support"
      [] p = "compile_support" -> IF benchmarks = <<>> THEN "report"
                                  ELSE "compile_benchmark"

\* The isdir test alone, without the os.access test.
dirOk_isdir(l) == dirStatus[l] # "missing"

\* os.path.isdir and os.access(..., os.R_OK) of a configuration directory.
dirOk(l) == dirStatus[l] = "ok"

create_builddir ==
    /\ pc = "create_builddir"
    /\ calls' = Append(calls, "create_builddir")
    /\ gp' = setitem(gp, "bd", IF isabs(args["builddir"]) THEN args["builddir"]
                               ELSE pathjoin(gp["rootdir"], args["builddir"]))
    /\ LET doClean == bdExists /\ args["clean"]
           \* rmtree empties a writable build root before it removes it
           emptied == doClean /\ bdW
           removed == doClean /\ bdW /\ parentW
           exists1 == bdExists /\ ~removed
           made    == ~exists1 /\ parentW
       IN  /\ mirrors' = IF emptied THEN {} ELSE mirrors
           /\ obj' = IF emptied THEN [u \in Units |-> NoFile] ELSE obj
           /\ IF doClean /\ ~removed
              THEN Exit1 /\ UNCHANGED <<bdExists, bdW>>
              ELSE /\ bdExists' = (exists1 \/ made)
                   /\ bdW' = IF made THEN TRUE ELSE bdW
                   /\ IF ~exists1 /\ ~made THEN Exit1
                      ELSE IF ~bdW' THEN Exit1
                      ELSE pc' = mainNext("create_builddir") /\ UNCHANGED exitCode
    /\ UNCHANGED <<args, cfgFile, cfgStatus, dirStatus, parentW, denied, src,
                   clock, faults, buildvars>>

validate_args ==
    /\ pc = "validate_args"
    /\ calls' = Append(calls, "validate_args")
    /\ LET g1 == setitem(setitem(gp, "configdir", pathjoin(gp["rootdir"], <<"config">>)),
                         "bd_configdir", pathjoin(gp["bd"], <<"config">>))
           g2 == setitem(setitem(g1, "archdir", pathjoin(g1["configdir"], args["arch"])),
                         "bd_archdir", pathjoin(g1["bd_configdir"], args["arch"]))
           g3 == setitem(setitem(g2, "chipdir", pathjoin2(g2["archdir"], <<"chips">>, args["chip"])),
                         "bd_chipdir", pathjoin2(g2["bd_archdir"], <<"chips">>, args["chip"]))
           g4 == setitem(setitem(g3, "boarddir", pathjoin2(g3["archdir"], <<"boards">>, args["board"])),
                         "bd_boarddir", pathjoin2(g3["bd_archdir"], <<"boards">>, args["board"]))
       IN  IF args["arch"] = <<>> THEN gp' = g1 /\ Exit1
           ELSE IF ~dirOk("arch") THEN gp' = g2 /\ Exit1
           \* a null chip or board is logged, and the run goes on
           ELSE IF ~dirOk("chip") THEN gp' = g3 /\ Exit1
           ELSE IF ~dirOk("board") THEN gp' = g4 /\ Exit1
           ELSE gp' = g4 /\ pc' = mainNext("validate_args") /\ UNCHANGED exitCode
    /\ UNCHANGED <<args, cfgFile, cfgStatus, dirvars, treevars, faults, buildvars>>

\* embench_core.find_benchmarks: the benchmark directories, in sorted order.
find_benchmarks ==
    /\ pc = "find_benchmarks"
    /\ calls' = Append(calls, "find_benchmarks")
    /\ gp' = setitem(setitem(gp, "benchdir", pathjoin(gp["rootdir"], <<"src">>)),
                     "bd_benchdir", pathjoin(gp["bd"], <<"src">>))
    /\ benchmarks' = Benchmarks
    /\ pc' = mainNext("find_benchmarks")
    /\ UNCHANGED <<exitCode, args, cfgFile, cfgStatus, dirvars, treevars, faults,
                   idx, successful, supportRes, compiled, linked, ccRuns, ccRes,
                   madeDirs, ldRuns, ldArgs, emitted>>

\* Only a PermissionError stops the run; any other exception of exec is
\* swallowed and the bindings made so far are kept.
cfgRaises_permonly == \E i \in DOMAIN FileLevels : cfgStatus[FileLevels[i]] = "permerror"

\* The configuration files are read in the order arch, chip, board; the
\* first one whose exec raises ends the run (PermissionError: sys.exit(1),
\* anything else: the exception leaves set_parameters and main).
cfgRaises == \E i \in DOMAIN FileLevels : cfgStatus[FileLevels[i]] \in {"invalid", "permerror"}

\* config[...] as the merge loop sees it.
configOf(a, files) ==
    [l \in {"default", "arch", "chip", "board", "user"} |->
        IF l = "default" THEN populate_defaults
        ELSE IF l = "user" THEN populate_user(a)
        ELSE files[l]]

\* gp after the merge loop and the linker default (lines 399-411).
merged(g, a, files) ==
    LET g0 == setitem(setitem(g, "cflags", <<>>), "ldflags", <<>>)
    IN  defaultLd(mergeAll(g0, configOf(a, files), Levels))

set_parameters ==
    /\ pc = "set_parameters"
    /\ calls' = Append(calls, "set_parameters")
    /\ LET g0 == setitem(setitem(gp, "supportdir", pathjoin(gp["rootdir"], <<"support">>)),
                         "bd_supportdir", pathjoin(gp["bd"], <<"support">>))
           g1 == add_internal_flags(merged(g0, args, cfgFile))
       IN  IF cfgRaises THEN gp' = g0 /\ Exit1
           ELSE /\ gp' = g1
                /\ IF validate_tools(g1)
                   THEN pc' = mainNext("set_parameters") /\ UNCHANGED exitCode
                   ELSE Exit1
    /\ UNCHANGED <<args, cfgFile, cfgStatus, dirvars, treevars, faults, buildvars>>

NextCfg == create_builddir \/ validate_args \/ find_benchmarks \/ set_parameters

SpecCfg == InitCfg /\ [][NextCfg]_vars

----------------------------------------------------------------------------
(* Compilation *)

\* How a spawned tool ends: exit code 0, another exit code, or the 5 second
\* timeout (subprocess.TimeoutExpired).
Outcomes == {"ok", "fail", "timeout"}

\* The staleness test with ">=" in place of ">".
needsCompile_ge(u, objs) == objs[u] = NoFile \/ src[u] >= objs[u]

\* The condition under which compile_file runs the compiler (line 450).
needsCompile(u, objs) == objs[u] = NoFile \/ src[u] > objs[u]

\* compile_file without the test of line 450: the compiler always runs.
compile_file_always(u, objs, out) ==
    [spawned   |-> TRUE,
     succeeded |-> out = "ok",
     obj       |-> IF out = "ok" THEN [objs EXCEPT ![u] = clock] ELSE objs]

\* compile_file for unit u, the object files being objs and the compiler,
\* if it is spawned, ending as out.  An exit code of 0 leaves the object
\* file, written now.
compile_file(u, objs, out) ==
    LET run == needsCompile(u, objs)
    IN  [spawned   |-> run,
         succeeded |-> IF run THEN out = "ok" ELSE TRUE,
         obj       |-> IF run /\ out = "ok" THEN [objs EXCEPT ![u] = clock] ELSE objs]

\* "=" in place of "&=".
andRes_assign(flag, res) == res

\* "succeeded &= ..." and "successful &= res".
andRes(flag, res) == flag /\ res

mk(d) == [kind |-> "makedirs", on |-> d]
cc(u) == [kind |-> "compile_file", on |-> u]

\* Runs the steps of compile_support or compile_benchmark in order.  st is
\* [dirs, made, obj, runs, res, nfail, succeeded, returned]; a makedirs of a missing directory
\* that raises PermissionError makes the function return False at once.
\* The loop left at the first file that fails to compile.
stepsDone_atFailure(steps, st) == steps = <<>> \/ st.returned \/ ~st.succeeded

\* No step is left to run: the list is exhausted ("for filename in ...:" has
\* no break) or the function has returned early.
stepsDone(steps, st) == steps = <<>> \/ st.returned

RECURSIVE runSteps(_, _, _)
runSteps(steps, st, outs) ==
    IF stepsDone(steps, st) THEN st
    ELSE LET step == Head(steps)
             d == step.on
             r == compile_file(step.on, st.obj, outs[step.on])
         IN  IF step.kind = "makedirs"
             THEN IF d \in st.dirs THEN runSteps(Tail(steps), st, outs)
                  ELSE IF d \in denied
                  THEN [st EXCEPT !.succeeded = FALSE, !.returned = TRUE]
                  ELSE runSteps(Tail(steps),
                                [st EXCEPT !.dirs = @ \cup withParents(d),
                                           !.made = @ \cup (withParents(d) \ st.dirs)],
                                outs)
             ELSE runSteps(Tail(steps),
                           [st EXCEPT !.obj = r.obj,
                                      !.runs[step.on] = IF r.spawned THEN @ + 1 ELSE @,
                                      !.res[step.on] = IF r.succeeded THEN "ok" ELSE "failed",
                                      !.nfail = IF r.succeeded THEN @ ELSE @ + 1,
                                      !.succeeded = andRes(@, r.succeeded)],
                           outs)

stepState == [dirs |-> mirrors, made |-> madeDirs, obj |-> obj, runs |-> ccRuns, res |-> ccRes,
              nfail |-> 0,
              succeeded |-> TRUE, returned |-> FALSE]

\* Ways the compilers of the units us can end: a compiler that is not
\* spawned has no outcome other than "ok", and failures are within bound.
ccOutcomes(us) ==
    {o \in [us -> Outcomes] :
        /\ \A u \in us : o[u] # "ok" => needsCompile(u, obj)
        /\ faults + Cardinality({u \in us : o[u] # "ok"}) <= MaxFaults}

RECURSIVE dummySteps(_)
dummySteps(libs) ==
    IF libs = <<>> THEN <<>>
    ELSE <<cc(dummyUnit(Head(libs)))>> \o dummySteps(Tail(libs))

\* The build directory of a level made whether or not the level has a
\* support source file.
RECURSIVE levelSteps_eager(_)
levelSteps_eager(lv) ==
    IF lv = <<>> THEN <<>>
    ELSE <<mk("bd_" \o Head(lv) \o "dir")>>
         \o (IF src[levelUnit(Head(lv))] # NoFile
             THEN <<cc(levelUnit(Head(lv)))>> ELSE <<>>)
         \o levelSteps_eager(Tail(lv))

\* For arch, chip, board in turn: when <level>support.c is a file, the
\* build directory is made if missing and the file is compiled.
RECURSIVE levelSteps(_)
levelSteps(lv) ==
    IF lv = <<>> THEN <<>>
    ELSE (IF src[levelUnit(Head(lv))] # NoFile
          THEN <<mk("bd_" \o Head(lv) \o "dir"), cc(levelUnit(Head(lv)))>>
          ELSE <<>>) \o levelSteps(Tail(lv))

supportSteps ==
    <<mk("bd_supportdir"), cc("beebsc"), cc("main")>>
    \o dummySteps(gp["dummy_libs"]) \o levelSteps(FileLevels)

stepUnits(steps) ==
    {steps[i].on : i \in {j \in DOMAIN steps : steps[j].kind = "compile_file"}}

\* Where main() goes after benchmark number i is dealt with.
afterBench(i) == IF i + 1 > Len(benchmarks) THEN "report" ELSE "compile_benchmark"

compile_support ==
    /\ pc = "compile_support"
    /\ calls' = Append(calls, "compile_support")
    /\ \E outs \in ccOutcomes(stepUnits(supportSteps)) :
          LET st == runSteps(supportSteps, stepState, outs)
          IN  /\ mirrors' = st.dirs
              /\ obj' = st.obj
              /\ ccRuns' = st.runs
              /\ ccRes' = st.res
              /\ madeDirs' = st.made
              /\ faults' = faults + st.nfail
              /\ supportRes' = IF st.succeeded THEN "ok" ELSE "failed"
              /\ successful' = st.succeeded
    /\ pc' = mainNext("compile_support")
    /\ UNCHANGED <<exitCode, cfgvars, dirvars, denied, src, clock, benchmarks,
                   idx, compiled, linked, ldRuns, ldArgs, emitted>>

RECURSIVE listingSteps(_, _)
listingSteps(bench, files) ==
    IF files = <<>> THEN <<>>
    ELSE (IF Head(files)[2] = ".c" THEN <<cc(unitOf(bench, Head(files)[1]))>> ELSE <<>>)
         \o listingSteps(bench, Tail(files))

benchSteps(bench) == <<mk(bench)>> \o listingSteps(bench, Listing[bench])

\* The link made unconditional.
linkAfter_always(res) == TRUE

\* "if res:" after compile_benchmark: the benchmark is linked.
linkAfter(res) == res

compile_benchmark ==
    /\ pc = "compile_benchmark"
    /\ LET bench == benchmarks[idx]
       IN  /\ calls' = Append(calls, "compile_benchmark " \o bench)
           /\ \E outs \in ccOutcomes(stepUnits(benchSteps(bench))) :
                LET st == runSteps(benchSteps(bench), stepState, outs)
                IN  /\ mirrors' = st.dirs
                    /\ obj' = st.obj
                    /\ ccRuns' = st.runs
                    /\ ccRes' = st.res
                    /\ madeDirs' = st.made
                    /\ faults' = faults + st.nfail
                    /\ compiled' = [compiled EXCEPT ![bench] =
                                        IF st.succeeded THEN "ok" ELSE "failed"]
                    /\ successful' = andRes(successful, st.succeeded)
                    /\ IF linkAfter(st.succeeded)
                       THEN pc' = "link_benchmark" /\ UNCHANGED idx
                       ELSE pc' = afterBench(idx) /\ idx' = idx + 1
    /\ UNCHANGED <<exitCode, cfgvars, dirvars, denied, src, clock, benchmarks,
                   supportRes, linked, ldRuns, ldArgs, emitted>>

----------------------------------------------------------------------------
(* Linking *)

ldInput(binf) == split(format(gp["ld_input_pattern"], <<binf>>))

\* The .o files os.listdir finds in the benchmark's build directory.
RECURSIVE benchObjs(_, _)
benchObjs(bench, files) ==
    IF files = <<>> THEN <<>>
    ELSE (IF Head(files)[2] = ".c" /\ obj[unitOf(bench, Head(files)[1])] # NoFile
          THEN ldInput(<<Head(files)[1] \o ".o">>) ELSE <<>>)
         \o benchObjs(bench, Tail(files))

RECURSIVE levelObjs(_)
levelObjs(lv) ==
    IF lv = <<>> THEN <<>>
    ELSE (IF obj[levelUnit(Head(lv))] # NoFile
          THEN ldInput(pathjoin(gp["bd_" \o Head(lv) \o "dir"], <<levelUnit(Head(lv)) \o ".o">>))
          ELSE <<>>) \o levelObjs(Tail(lv))

supportObj(u) == ldInput(pathjoin(gp["bd_supportdir"], <<u \o ".o">>))

\* The shared and dummy objects the link needs, in the order they are looked up.
RECURSIVE dummyUnits(_)
dummyUnits(libs) ==
    IF libs = <<>> THEN <<>> ELSE <<dummyUnit(Head(libs))>> \o dummyUnits(Tail(libs))

requiredUnits == <<"main", "beebsc">> \o dummyUnits(gp["dummy_libs"])

RECURSIVE requiredObjs(_)
requiredObjs(us) ==
    IF us = <<>> THEN <<>> ELSE supportObj(Head(us)) \o requiredObjs(Tail(us))

missingRequired == \E i \in DOMAIN requiredUnits : obj[requiredUnits[i]] = NoFile

\* The shared and dummy objects put in front of the benchmark's own.
create_link_binlist_supportfirst(bench) ==
    IF missingRequired THEN <<>>
    ELSE requiredObjs(requiredUnits) \o benchObjs(bench, Listing[bench])
         \o levelObjs(FileLevels)

\* The list of binaries to link, or the empty list on failure.
create_link_binlist(bench) ==
    IF missingRequired THEN <<>>
    ELSE benchObjs(bench, Listing[bench]) \o levelObjs(FileLevels)
         \o requiredObjs(requiredUnits)

\* What create_link_arglist appends after the linker flags.
linkTail(bench, binlist) ==
    split(format(gp["ld_output_pattern"], <<<<bench>>>>)) \o binlist \o gp["user_libs"]

\* The user libraries put in front of the objects.
create_link_arglist_libsfirst(bench, binlist) ==
    <<gp["ld"]>> \o gp["ldflags"]
    \o split(format(gp["ld_output_pattern"], <<<<bench>>>>))
    \o gp["user_libs"] \o binlist

create_link_arglist(bench, binlist) ==
    <<gp["ld"]>> \o gp["ldflags"] \o linkTail(bench, binlist)

\* "arglist = gp['ldflags']" in place of a list of its own: every extend
\* goes to the list the store holds.
storeAfterArglist_aliased(g, bench, binlist) ==
    [g EXCEPT !["ldflags"] = @ \o linkTail(bench, binlist)]

\* The store once create_link_arglist has returned: "arglist = [gp['ld']]"
\* is a new list and the extends go to it, gp['ldflags'] and
\* gp['user_libs'] are only read.
storeAfterArglist(g, bench, binlist) == g

link_benchmark ==
    /\ pc = "link_benchmark"
    /\ LET bench == benchmarks[idx]
           binlist == create_link_binlist(bench)
           arglist == create_link_arglist(bench, binlist)
       IN  /\ calls' = Append(calls, "link_benchmark " \o bench)
           /\ IF bench \notin mirrors
              THEN \* no build directory: return False
                   /\ linked' = [linked EXCEPT ![bench] = "failed"]
                   /\ successful' = andRes(successful, FALSE)
                   /\ pc' = afterBench(idx) /\ idx' = idx + 1
                   /\ UNCHANGED <<exitCode, gp, faults, ldRuns, ldArgs, emitted>>
              ELSE \* an empty binlist clears "succeeded"; the linker runs all the same
                   \E out \in Outcomes :
                   /\ out # "ok" => faults < MaxFaults
                   /\ gp' = storeAfterArglist(gp, bench, binlist)
                   /\ faults' = IF out = "ok" THEN faults ELSE faults + 1
                   /\ ldRuns' = [ldRuns EXCEPT ![bench] = @ + 1]
                   /\ ldArgs' = [ldArgs EXCEPT ![bench] = arglist]
                   /\ IF out = "timeout"
                      THEN \* "res" was never bound: the log.debug(res.stdout...)
                           \* of line 655 raises UnboundLocalError
                           /\ Exit1
                           /\ UNCHANGED <<linked, successful, idx, emitted>>
                      ELSE LET res == (binlist # <<>>) /\ out = "ok"
                           IN  /\ linked' = [linked EXCEPT ![bench] =
                                                IF res THEN "ok" ELSE "failed"]
                               /\ successful' = andRes(successful, res)
                               /\ emitted' = IF res THEN Append(emitted, bench) ELSE emitted
                               /\ pc' = afterBench(idx) /\ idx' = idx + 1
                               /\ UNCHANGED exitCode
    /\ UNCHANGED <<args, cfgFile, cfgStatus, dirvars, treevars, benchmarks,
                   supportRes, compiled, ccRuns, ccRes, madeDirs>>

AllBuilt == "All benchmarks built successfully"

\* The end of main(): it returns None, and sys.exit(main()) exits with 0.
report ==
    /\ pc = "report"
    /\ calls' = Append(calls, "report")
    /\ emitted' = IF successful THEN Append(emitted, AllBuilt) ELSE emitted
    /\ pc' = "exited"
    /\ exitCode' = 0
    /\ UNCHANGED <<cfgvars, dirvars, treevars, faults, benchmarks, idx, successful,
                   supportRes, compiled, linked, ccRuns, ccRes, madeDirs, ldRuns,
                   ldArgs>>

Next == \/ create_builddir
        \/ validate_args
        \/ find_benchmarks
        \/ set_parameters
        \/ compile_support
        \/ compile_benchmark
        \/ link_benchmark
        \/ report

Spec == Init /\ [][Next]_vars

----------------------------------------------------------------------------
(* compile_file on its own: calls for two files, with the clock advancing   *)
(* and the sources being modified between the calls.  Here "calls" holds    *)
(* one record per call or modification.                                     *)

FileUnits == {"main", "b1/f1"}

\* The build directories exist, there is no object file, and a source may
\* carry a modification time that is still to come.
InitFile ==
    /\ pc = "compile_file"
    /\ InitMain({})
    /\ InitBuild(0)
    /\ bdExists = TRUE /\ bdW = TRUE /\ parentW = TRUE
    /\ mirrors = {mirrorOf(u) : u \in FileUnits}
    /\ denied = {}
    /\ \E m \in [FileUnits -> 0..MaxClock] :
          src = [u \in Units |-> IF u \in FileUnits THEN m[u]
                                 ELSE IF u \in LevelUnits THEN NoFile ELSE 1]
    /\ obj = [u \in Units |-> NoFile]
    /\ clock = 0

CompileFile ==
    /\ pc = "compile_file"
    /\ Len(calls) < MaxCalls
    /\ \E u \in FileUnits, out \in Outcomes :
          LET r == compile_file(u, obj, out)
          IN  /\ obj' = r.obj
              /\ ccRuns' = [ccRuns EXCEPT ![u] = IF r.spawned THEN @ + 1 ELSE @]
              /\ ccRes' = [ccRes EXCEPT ![u] = IF r.succeeded THEN "ok" ELSE "failed"]
              /\ calls' = Append(calls, [op |-> "compile_file", unit |-> u,
                                         at |-> clock, srcm |-> src[u],
                                         objm |-> obj[u],
                                         spawned |-> r.spawned,
                                         succeeded |-> r.succeeded])
    /\ UNCHANGED <<pc, exitCode, cfgvars, dirvars, mirrors, denied, src, clock,
                   faults, benchmarks, idx, successful, supportRes, compiled,
                   linked, madeDirs, ldRuns, ldArgs, emitted>>

\* The source file of a unit is written: its mtime becomes the current time.
ModifySource ==
    /\ pc = "compile_file"
    /\ Len(calls) < MaxCalls
    /\ \E u \in FileUnits :
          /\ src' = [src EXCEPT ![u] = clock]
          /\ calls' = Append(calls, [op |-> "modify", unit |-> u,
                                     at |-> clock, srcm |-> clock,
                                     objm |-> obj[u], spawned |-> FALSE, succeeded |-> FALSE])
    /\ UNCHANGED <<pc, exitCode, cfgvars, dirvars, mirrors, denied, obj, clock,
                   faults, buildvars>>

\* Time passes.
Tick ==
    /\ pc = "compile_file"
    /\ clock < MaxClock
    /\ clock' = clock + 1
    /\ UNCHANGED <<pc, exitCode, calls, cfgvars, dirvars, mirrors, denied, src,
                   obj, faults, buildvars>>

NextFile == CompileFile \/ ModifySource \/ Tick

SpecFile == InitFile /\ [][NextFile]_vars

----------------------------------------------------------------------------
(* Properties of the resolved configuration (checked under SpecCfg) *)

\* set_parameters has returned to main.
Resolved == pc = "compile_support"

\* Source l binds key k.
setIn(l, k) ==
    CASE l = "default" -> k \in DOMAIN populate_defaults
      [] l = "user"    -> given(args, k)
      [] OTHER         -> k \in DOMAIN cfgFile[l]

\* The value source l gives key k: a flag or library option of the user is
\* the list of its space-separated tokens.
valueIn(l, k) ==
    CASE l = "default" -> populate_defaults[k]
      [] l = "user"    -> IF k \in FlagKeys \cup LibKeys THEN split(args[k]) ELSE args[k]
      [] OTHER         -> cfgFile[l][k]

setters(k) == {i \in DOMAIN Levels : setIn(Levels[i], k)}

\* The flags of key k after the merge, without the derived flags that
\* add_internal_flags appended to cflags.
mergedFlags(k) ==
    IF k = "cflags"
    THEN SubSeq(gp[k], 1, Len(gp[k]) - Len(internalFlags(gp)))
    ELSE gp[k]

RECURSIVE flagsFrom(_, _)
flagsFrom(k, i) ==
    IF i > Len(Levels) THEN <<>>
    ELSE (IF setIn(Levels[i], k) THEN valueIn(Levels[i], k) ELSE <<>>)
         \o flagsFrom(k, i + 1)

\* C1: a non-additive key set in exactly two of the sources default, arch,
\* chip, board, user resolves to the value of the later of the two, the
\* user's command line included.
C1_LaterSourceWins ==
    Resolved =>
        \A k \in NonAdditiveKeys : \A i, j \in DOMAIN Levels :
            (i < j /\ setters(k) = {i, j}) => gp[k] = valueIn(Levels[j], k)

\* C2: the merged cflags and ldflags are the lists of the sources that set
\* them, one after the other in the order default, arch, chip, board, user:
\* no list is replaced or dropped and the user's tokens come last.
C2_FlagsAccumulate ==
    Resolved => \A k \in FlagKeys : mergedFlags(k) = flagsFrom(k, 1)

----------------------------------------------------------------------------
(* Properties of a run (checked under Spec) *)

called(c) == \E i \in DOMAIN calls : calls[i] = c

linkCalled(b) == called("link_benchmark " \o b)

\* main() fell off its end (as opposed to sys.exit(1) or an exception).
Completed == pc = "exited" /\ called("report")

noToolRun == (\A u \in Units : ccRuns[u] = 0) /\ (\A b \in BenchSet : ldRuns[b] = 0)

\* C3: when main.o, beebsc.o or the object of a configured dummy library is
\* missing, link_benchmark returns False without spawning the linker.
C3_NoLinkerWithoutRequiredObjects ==
    \A b \in BenchSet :
        (linkCalled(b) /\ missingRequired) => (linked[b] = "failed" /\ ldRuns[b] = 0)

\* C4: a compiler or linker that times out or exits with a nonzero code
\* fails that one call only: once the tools are running, the run ends by
\* falling off the end of main with every benchmark dealt with, never by
\* an exception.
C4_ToolFailureIsLocal ==
    (pc = "exited" /\ called("compile_support")) =>
        /\ called("report")
        /\ \A b \in BenchSet :
              /\ compiled[b] # "none"
              /\ compiled[b] = "ok" => linked[b] # "none"

AllSucceeded ==
    supportRes = "ok" /\ \A b \in BenchSet : compiled[b] = "ok" /\ linked[b] = "ok"

\* C5: the exit status of a run that built anything is zero exactly when
\* the support code and every benchmark compiled and linked.
C5_ExitStatusSignalsFailure ==
    (pc = "exited" /\ called("compile_support")) => (exitCode = 0 <=> AllSucceeded)

\* C6: link_benchmark is called for a benchmark only if its
\* compile_benchmark returned True, and then it is called (it is the next
\* call of main, or it has been made).
C6_LinkOnlyAfterCompile ==
    \A b \in BenchSet :
        /\ linkCalled(b) => compiled[b] = "ok"
        /\ compiled[b] = "ok" =>
              (linkCalled(b) \/ (pc = "link_benchmark" /\ benchmarks[idx] = b))

C6_Witness ==
    /\ Completed
    /\ \E b \in BenchSet : compiled[b] = "failed" /\ ~linkCalled(b)
    /\ \E b \in BenchSet : compiled[b] = "ok" /\ linkCalled(b)

\* The order the specification gives for the phases of a run, and the
\* order main() makes the calls in.
benchCalls(i) ==
    IF i > Len(Benchmarks) THEN {}
    ELSE {"compile_benchmark " \o Benchmarks[i], "link_benchmark " \o Benchmarks[i]}

CallNames ==
    {"create_builddir", "validate_args", "find_benchmarks", "set_parameters",
     "compile_support", "report"} \cup UNION {benchCalls(i) : i \in DOMAIN Benchmarks}

rankClaimed == [c \in CallNames |->
    CASE c = "validate_args"   -> 1
      [] c = "create_builddir" -> 2
      [] c = "set_parameters"  -> 3
      [] c = "compile_support" -> 4
      [] c \in UNION {benchCalls(i) : i \in DOMAIN Benchmarks} ->
            4 + (CHOOSE i \in DOMAIN Benchmarks : c \in benchCalls(i))
      [] OTHER -> 0]

rankMain == [c \in CallNames |->
    CASE c = "create_builddir" -> 1
      [] c = "validate_args"   -> 2
      [] c = "set_parameters"  -> 3
      [] c = "compile_support" -> 4
      [] c \in UNION {benchCalls(i) : i \in DOMAIN Benchmarks} ->
            4 + (CHOOSE i \in DOMAIN Benchmarks : c \in benchCalls(i))
      [] OTHER -> 0]

\* The calls made so far follow the phases ranked by rank: a phase is
\* entered only after the phase before it, phases up to the support
\* compilation are entered once, and a benchmark is compiled before it is
\* linked.
inPhaseOrder(rank) ==
    \A j \in DOMAIN calls :
        LET r == rank[calls[j]]
        IN  r > 0 =>
              /\ r > 1 => \E i \in 1..(j - 1) : rank[calls[i]] = r - 1
              /\ \A i \in 1..(j - 1) :
                    /\ rank[calls[i]] <= r
                    /\ rank[calls[i]] = r =>
                          (r > 4 /\ i = j - 1
                           /\ calls[i] = "compile_benchmark " \o Benchmarks[r - 4]
                           /\ calls[j] = "link_benchmark " \o Benchmarks[r - 4])

\* C8 as stated: validation of the arch/chip/board directories, then the
\* build root, then the configuration, then one support compilation, then
\* the benchmarks in discovery order.
C8_PhaseOrderAsClaimed == inPhaseOrder(rankClaimed)

\* C8: the build root is created or cleaned first, then the arch/chip/board
\* directories are validated, then the configuration is resolved, then the
\* support code is compiled once, then the benchmarks in discovery order.
C8_PhaseOrder == inPhaseOrder(rankMain)

C8_Witness ==
    /\ Completed
    /\ args["clean"] /\ bdExists
    /\ \A b \in BenchSet : linkCalled(b)

badDir == \E l \in {"arch", "chip", "board"} : dirStatus[l] # "ok"

\* C9: when the arch, chip or board directory is missing or unreadable the
\* run never gets past validate_args, ends with sys.exit(1), and no
\* compiler or linker is ever spawned.
C9_NoToolOnBadLayout ==
    badDir =>
        /\ noToolRun
        /\ pc \in {"create_builddir", "validate_args", "exited"}
        /\ pc = "exited" => exitCode = 1

C9_Witness ==
    /\ dirStatus["board"] = "unreadable"
    /\ pc = "exited"
    /\ calls = <<"create_builddir", "validate_args">>

\* C10: when main() falls off its end, its flag "successful" is the AND of
\* the result of compile_support and of the compile and link results of
\* every benchmark, and the closing message is logged exactly then.
C10_OverallIsAnd ==
    Completed =>
        /\ successful = AllSucceeded
        /\ (\E i \in DOMAIN emitted : emitted[i] = AllBuilt) <=> AllSucceeded

C10_Witness ==
    /\ Completed
    /\ ~successful
    /\ supportRes = "ok"
    /\ \E b \in BenchSet : linked[b] = "ok"
    /\ \E b \in BenchSet : compiled[b] = "ok" /\ linked[b] = "failed"

----------------------------------------------------------------------------
(* Properties of compile_file (checked under SpecFile) *)

\* Entries i and j are two calls of compile_file for unit u with no other
\* call for u and no modification of its source between them.
twice(i, j, u) ==
    /\ i < j
    /\ calls[i].op = "compile_file" /\ calls[i].unit = u
    /\ calls[j].op = "compile_file" /\ calls[j].unit = u
    /\ \A k \in (i + 1)..(j - 1) : calls[k].unit # u

\* C7 as stated: of two calls of compile_file for a file whose source was
\* not modified in between, the second never spawns the compiler and
\* returns True.
C7_SecondCallIsNoOp ==
    pc = "compile_file" =>
        \A u \in FileUnits : \A i, j \in DOMAIN calls :
            twice(i, j, u) => (~calls[j].spawned /\ calls[j].succeeded)

\* C7: of two calls of compile_file for a file whose source was not
\* modified in between, the second is a no-op returning True when the first
\* returned True and the source's mtime was not later than the time of the
\* first call; when the first returned False the second spawns the
\* compiler again.
C7_SecondCallAfterSuccessIsNoOp ==
    pc = "compile_file" =>
        \A u \in FileUnits : \A i, j \in DOMAIN calls :
            twice(i, j, u) =>
                /\ (calls[i].succeeded /\ calls[i].srcm <= calls[i].at)
                      => (~calls[j].spawned /\ calls[j].succeeded)
                /\ ~calls[i].succeeded => calls[j].spawned

C7_Witness ==
    /\ pc = "compile_file"
    /\ \E u \in FileUnits : \E i, j \in DOMAIN calls :
          /\ twice(i, j, u)
          /\ calls[i].spawned /\ calls[i].succeeded /\ calls[i].srcm = calls[i].at
          /\ ~calls[j].spawned /\ calls[j].succeeded

----------------------------------------------------------------------------
(* Properties of compile_benchmark (checked under Spec) *)

\* C11: compile_benchmark returns True exactly when the benchmark's build
\* directory is available and compile_file returned True for every .c file
\* of the benchmark; one file that fails makes it return False whatever the
\* other files do.
C11_BenchmarkResultIsAnd ==
    \A b \in BenchSet :
        compiled[b] # "none" =>
            (compiled[b] = "ok" <=>
                (b \in mirrors /\ \A u \in BenchUnits(b) : ccRes[u] = "ok"))

C11_Witness ==
    /\ compiled["b1"] = "failed"
    /\ ccRes["b1/f1"] = "failed"
    /\ ccRes["b1/f2"] = "ok"

----------------------------------------------------------------------------
(* Properties of the resolved store (checked under SpecCfg) *)

\* C12: when none of the sources default, arch, chip, board, user sets the
\* linker command, the resolved ld is the resolved cc, that is the compiler
\* command as it stands after every override.
C12_LinkerDefaultsToCompiler ==
    ("ld" \in DOMAIN gp /\ setters("ld") = {}) => gp["ld"] = gp["cc"]

C12_Witness ==
    /\ Resolved
    /\ setters("ld") = {}
    /\ setIn("arch", "cc") /\ setIn("user", "cc")
    /\ gp["ld"] = "user-cc"

----------------------------------------------------------------------------
(* Properties of a run with a corrupt configuration file (checked under Spec) *)

BuildPcs == {"compile_support", "compile_benchmark", "link_benchmark", "report"}

\* C13: when the exec of arch.cfg, chip.cfg or board.cfg raises, the run
\* ends before compile_support: no compiler or linker is ever spawned, and
\* no key the file had bound before it raised is in the store.
C13_CorruptFileAborts ==
    \A i \in DOMAIN FileLevels :
        cfgStatus[FileLevels[i]] = "invalid" =>
            /\ noToolRun
            /\ pc \notin BuildPcs
            /\ ~called("compile_support")
            /\ \A k \in DOMAIN cfgFile[FileLevels[i]] : k \notin DOMAIN gp

C13_Witness ==
    /\ cfgStatus["chip"] = "invalid"
    /\ "dummy_libs" \in DOMAIN cfgFile["chip"]
    /\ called("set_parameters")
    /\ pc = "exited"

----------------------------------------------------------------------------
(* Properties of the store during the build (checked under Spec) *)

\* The store as set_parameters resolves it from the sources.
resolvedStore == add_internal_flags(merged(gp, args, cfgFile))

\* C14: from the first call of compile_support on, the store is the one
\* set_parameters resolved, and no step of compile_support,
\* compile_benchmark (compile_file), link_benchmark (create_link_binlist,
\* create_link_arglist) or the report changes any key of it, cflags and
\* ldflags included.
C14_StoreReadOnlyDuringBuild ==
    /\ [](pc \in BuildPcs => gp = resolvedStore)
    /\ [][(pc \in BuildPcs) => (gp' = gp)]_vars

C14_Witness ==
    /\ Completed
    /\ \A b \in BenchSet : compiled[b] = "ok" /\ ldRuns[b] = 1
    /\ gp = resolvedStore
    /\ Len(gp["cflags"]) > 0

RequiredKeys ==
    {"cc", "ld", "cc_define1_pattern", "cc_define2_pattern", "cc_incdir_pattern",
     "cc_input_pattern", "cc_output_pattern", "ld_input_pattern",
     "ld_output_pattern", "cflags", "ldflags", "user_libs", "dummy_libs",
     "cpu_mhz", "warmup_heat"}

\* C15: once set_parameters has returned, every key the build reads is
\* bound in the store, whatever files and options are present: a flag list
\* is a list, and any other key holds the value one of the sources gave it
\* (the default included), the linker possibly that of the compiler.
C15_RequiredKeysBound ==
    Resolved =>
        \A k \in RequiredKeys :
            /\ k \in DOMAIN gp
            /\ k \notin FlagKeys =>
                  \/ \E i \in setters(k) : gp[k] = valueIn(Levels[i], k)
                  \/ k = "ld" /\ gp[k] = gp["cc"]

C15_Witness ==
    /\ Resolved
    /\ \A k \in RequiredKeys : setters(k) \subseteq {1}
    /\ gp["ld"] = "cc"
    /\ gp["dummy_libs"] = <<>>

----------------------------------------------------------------------------
(* pylib/run_sim.py: decode_results *)

\* A text is a sequence of characters.  A float is the pair <<m, e>>
\* standing for m * 10^e, with m not a multiple of 10 unless it is 0, so
\* that equal numbers are equal pairs (the rounding of a decimal to the
\* nearest double is left out).
MaxLen == 3

Digits == {"0", "1", "5"}
Chars == Digits \cup {".", "-", "e", " ", "x"}

digitVal(c) == IF c = "0" THEN 0 ELSE IF c = "1" THEN 1 ELSE 5

RECURSIVE intOf(_, _)
intOf(ds, acc) ==
    IF ds = <<>> THEN acc ELSE intOf(Tail(ds), 10 * acc + digitVal(Head(ds)))

RECURSIVE normal(_, _)
normal(m, e) ==
    IF m = 0 THEN <<0, 0>>
    ELSE IF m % 10 = 0 THEN normal(m \div 10, e + 1) ELSE <<m, e>>

Zero == <<0, 0>>

\* float(text) reads the text from left to right.  ph is what was read
\* last: "start" (leading whitespace), "sign", "int" and "frac" (digits
\* before and after the point), "exp0" (the "e"), "exps" (the sign of the
\* exponent), "expd" (its digits), "end" (trailing whitespace), or "bad".
\* m holds the digits of the mantissa, nd their number, fl the number of
\* those after the point, ev the exponent.
floatStart == [ph |-> "start", neg |-> FALSE, m |-> 0, nd |-> 0, fl |-> 0,
               eneg |-> FALSE, ev |-> 0]

mantissaDigit(st, c, ph) ==
    [st EXCEPT !.ph = ph, !.m = 10 * @ + digitVal(c), !.nd = @ + 1,
               !.fl = IF ph = "frac" THEN @ + 1 ELSE @]

floatStep(st, c) ==
    CASE st.ph = "start" /\ c = " " -> st
      [] st.ph = "start" /\ c = "-" -> [st EXCEPT !.ph = "sign", !.neg = TRUE]
      [] st.ph \in {"start", "sign", "int"} /\ c \in Digits -> mantissaDigit(st, c, "int")
      [] st.ph \in {"start", "sign", "int"} /\ c = "." -> [st EXCEPT !.ph = "frac"]
      [] st.ph = "frac" /\ c \in Digits -> mantissaDigit(st, c, "frac")
      [] st.ph \in {"int", "frac"} /\ st.nd >= 1 /\ c = "e" -> [st EXCEPT !.ph = "exp0"]
      [] st.ph = "exp0" /\ c = "-" -> [st EXCEPT !.ph = "exps", !.eneg = TRUE]
      [] st.ph \in {"exp0", "exps", "expd"} /\ c \in Digits ->
            [st EXCEPT !.ph = "expd", !.ev = 10 * @ + digitVal(c)]
      [] st.ph \in {"int", "frac", "expd", "end"} /\ st.nd >= 1 /\ c = " " ->
            [st EXCEPT !.ph = "end"]
      [] OTHER -> [st EXCEPT !.ph = "bad"]

RECURSIVE floatScan(_, _)
floatScan(s, st) ==
    IF s = <<>> THEN st ELSE floatScan(Tail(s), floatStep(st, Head(s)))

\* float(text): surrounding whitespace is dropped, then come an optional
\* sign, digits with at most one point and at least one digit, and an
\* optional exponent "e", optional sign, digits; anything else raises
\* ValueError.
float(s) ==
    LET st == floatScan(s, floatStart)
    IN  IF st.ph \in {"int", "frac", "expd", "end"} /\ st.nd >= 1
        THEN [exc |-> "none",
              value |-> normal(IF st.neg THEN 0 - st.m ELSE st.m,
                               (IF st.eneg THEN 0 - st.ev ELSE st.ev) - st.fl)]
        ELSE [exc |-> "ValueError", value |-> Zero]

\* decode_results without the try: the ValueError reaches the caller.
decode_results_notry(stdout_str, stderr_str) == float(stdout_str)

\* decode_results: the float of the whole standard output, 0.0 when float
\* raises ValueError.
decode_results(stdout_str, stderr_str) ==
    LET dur_time == float(stdout_str)
    IN  IF dur_time.exc = "ValueError" THEN [exc |-> "none", value |-> Zero]
        ELSE dur_time

\* The texts of at most n characters.
TextsUpTo(n) == UNION {[1..k -> Chars] : k \in 0..n}

\* A run has ended and its standard output, any text, is to be decoded.
InitDecode ==
    /\ pc = "decode_results"
    /\ exitCode = -1
    /\ calls = <<>>
    /\ \E s \in TextsUpTo(MaxLen) : args = [stdout_str |-> s, stderr_str |-> <<>>]
    /\ cfgFile = [l \in {"arch", "chip", "board"} |-> EmptyDict]
    /\ cfgStatus = [l \in {"arch", "chip", "board"} |-> "absent"]
    /\ gp = EmptyDict
    /\ dirStatus = [l \in {"arch", "chip", "board"} |-> "ok"]
    /\ InitTree({})
    /\ InitBuild(0)

DecodeResults ==
    /\ pc = "decode_results"
    /\ LET r == decode_results(args["stdout_str"], args["stderr_str"])
       IN  /\ calls' = Append(calls, [op |-> "decode_results",
                                      stdout |-> args["stdout_str"],
                                      exc |-> r.exc, value |-> r.value])
           /\ pc' = IF r.exc = "none" THEN "returned" ELSE "raised"
    /\ UNCHANGED <<exitCode, cfgvars, dirvars, treevars, faults, buildvars>>

NextDecode == DecodeResults

SpecDecode == InitDecode /\ [][NextDecode]_vars

----------------------------------------------------------------------------
(* Properties of decode_results (checked under SpecDecode) *)

nonSpace(s) == {i \in DOMAIN s : s[i] # " "}

\* The text between its first and its last character that is not a space.
trimmed(s) ==
    IF nonSpace(s) = {} THEN <<>>
    ELSE SubSeq(s, CHOOSE i \in nonSpace(s) : \A j \in nonSpace(s) : i <= j,
                   CHOOSE i \in nonSpace(s) : \A j \in nonSpace(s) : j <= i)

unsigned(t) == IF t # <<>> /\ t[1] = "-" THEN Tail(t) ELSE t

expAt(t) == IF \E i \in DOMAIN t : t[i] = "e"
            THEN CHOOSE i \in DOMAIN t : t[i] = "e" ELSE Len(t) + 1

mantissaOf(s) == SubSeq(unsigned(trimmed(s)), 1, expAt(unsigned(trimmed(s))) - 1)

exponentOf(s) ==
    SubSeq(unsigned(trimmed(s)), expAt(unsigned(trimmed(s))) + 1,
           Len(unsigned(trimmed(s))))

\* The text is one decimal number: apart from surrounding spaces and a
\* leading "-", a mantissa of digits with at most one point and at least
\* one digit, then possibly "e" and a whole number.
isSingleNumber(s) ==
    LET t == unsigned(trimmed(s))
        mant == mantissaOf(s)
        expo == unsigned(exponentOf(s))
    IN  /\ Cardinality({i \in DOMAIN t : t[i] = "e"}) <= 1
        /\ \A i \in DOMAIN mant : mant[i] \in Digits \cup {"."}
        /\ Cardinality({i \in DOMAIN mant : mant[i] = "."}) <= 1
        /\ \E i \in DOMAIN mant : mant[i] \in Digits
        /\ expAt(t) <= Len(t) =>
              (expo # <<>> /\ \A i \in DOMAIN expo : expo[i] \in Digits)

\* The number such a text denotes.
numberOf(s) ==
    LET mant == mantissaOf(s)
        digs == SelectSeq(mant, LAMBDA c : c \in Digits)
        frac == IF \E i \in DOMAIN mant : mant[i] = "."
                THEN Len(mant) - (CHOOSE i \in DOMAIN mant : mant[i] = ".")
                ELSE 0
        expo == exponentOf(s)
        ev == IF expo # unsigned(expo) THEN 0 - intOf(unsigned(expo), 0)
              ELSE intOf(expo, 0)
        m == intOf(digs, 0)
    IN  normal(IF trimmed(s) # unsigned(trimmed(s)) THEN 0 - m ELSE m, ev - frac)

\* C16: decode_results never raises on a text; it returns the number the
\* whole standard output denotes when the output is a single number, and
\* 0.0 for every other text, the empty one included.
C16_DecodeNumberOrZero ==
    pc \in {"returned", "raised"} =>
        /\ calls[1].exc = "none"
        /\ isSingleNumber(calls[1].stdout) =>
              calls[1].value = numberOf(calls[1].stdout)
        /\ ~isSingleNumber(calls[1].stdout) => calls[1].value = Zero

C16_Witness ==
    /\ pc = "returned"
    /\ calls[1].stdout = <<"1", ".", "5">>
    /\ calls[1].value = <<15, -1>>

----------------------------------------------------------------------------
(* Properties of the loop over a benchmark's files (checked under Spec) *)

\* C17: once the build directory of a benchmark is available,
\* compile_benchmark calls compile_file for every .c file of the benchmark,
\* those listed after a file that failed to compile included.
C17_EveryFileIsAttempted ==
    \A b \in BenchSet :
        (compiled[b] # "none" /\ b \in mirrors) =>
            \A u \in BenchUnits(b) : ccRes[u] # "none"

C17_Witness ==
    /\ compiled["b1"] = "failed"
    /\ ccRes["b1/f1"] = "failed"
    /\ ccRes["b1/f2"] # "none"
    /\ ccRuns["b1/f2"] = 1

----------------------------------------------------------------------------
(* Properties of the staleness test (checked under SpecFile) *)

\* The object file was there when the call was made, not older than the source.
upToDate(c) == c.objm # NoFile /\ c.objm >= c.srcm

\* C18: compile_file returns True without spawning the compiler exactly
\* when the object file exists with a modification time equal to or later
\* than the source's; in every other case it spawns the compiler.
C18_SkipIffObjectUpToDate ==
    pc = "compile_file" =>
        \A i \in DOMAIN calls :
            calls[i].op = "compile_file" =>
                /\ upToDate(calls[i]) => (~calls[i].spawned /\ calls[i].succeeded)
                /\ ~upToDate(calls[i]) => calls[i].spawned

C18_Witness ==
    /\ pc = "compile_file"
    /\ \E i, j \in DOMAIN calls :
          /\ calls[i].op = "compile_file" /\ calls[j].op = "compile_file"
          /\ calls[i].objm = NoFile /\ calls[i].spawned
          /\ calls[j].objm = calls[j].srcm /\ ~calls[j].spawned /\ calls[j].succeeded

----------------------------------------------------------------------------
(* Properties of the link input list (checked under Spec) *)

benchTokens(b) ==
    {Listing[b][i][1] \o ".o" :
        i \in {j \in DOMAIN Listing[b] :
                  /\ Listing[b][j][2] = ".c"
                  /\ obj[unitOf(b, Listing[b][j][1])] # NoFile}}

levelToken(l) == ldInput(pathjoin(gp["bd_" \o l \o "dir"], <<levelUnit(l) \o ".o">>))[1]

supportToken(u) == supportObj(u)[1]

\* The tokens the link of b is to be given, group by group.
expectedTokens(b) ==
    benchTokens(b)
    \cup {levelToken(FileLevels[i]) :
             i \in {j \in DOMAIN FileLevels : obj[levelUnit(FileLevels[j])] # NoFile}}
    \cup {supportToken("main"), supportToken("beebsc")}
    \cup {supportToken(dummyUnit(gp["dummy_libs"][i])) : i \in DOMAIN gp["dummy_libs"]}

\* Position of a token's group: the benchmark's objects, the arch, the chip
\* and the board object, the two shared objects, the i-th dummy library.
groupOf(t, b) ==
    CASE t \in benchTokens(b) -> 1
      [] t = levelToken("arch") -> 2
      [] t = levelToken("chip") -> 3
      [] t = levelToken("board") -> 4
      [] t \in {supportToken("main"), supportToken("beebsc")} -> 5
      [] OTHER ->
           IF \E i \in DOMAIN gp["dummy_libs"] :
                 t = supportToken(dummyUnit(gp["dummy_libs"][i]))
           THEN 5 + (CHOOSE i \in DOMAIN gp["dummy_libs"] :
                        t = supportToken(dummyUnit(gp["dummy_libs"][i])))
           ELSE 0

\* C19: a link input list that create_link_binlist produces holds, each
\* once, the benchmark's object files, the arch, chip and board objects
\* that exist, the two shared support objects and one object per dummy
\* library; no object of a later group precedes one of an earlier group,
\* arch comes before chip before board, and the dummy objects follow the
\* order of dummy_libs.
C19_BinlistOrder ==
    (pc = "link_benchmark" /\ benchmarks[idx] \in mirrors) =>
        LET b == benchmarks[idx]
            binlist == create_link_binlist(b)
        IN  binlist # <<>> =>
              /\ {binlist[i] : i \in DOMAIN binlist} = expectedTokens(b)
              /\ \A i, j \in DOMAIN binlist :
                    i < j => /\ binlist[i] # binlist[j]
                             /\ groupOf(binlist[i], b) <= groupOf(binlist[j], b)
                             /\ groupOf(binlist[i], b) \notin {1, 5} =>
                                   groupOf(binlist[i], b) < groupOf(binlist[j], b)

C19_Witness ==
    /\ pc = "link_benchmark"
    /\ benchmarks[idx] = "b1"
    /\ gp["dummy_libs"] = listVal("chip")
    /\ obj["chipsupport"] # NoFile
    /\ Len(create_link_binlist("b1")) = 7

----------------------------------------------------------------------------
(* Properties of the derived compiler flags (checked under SpecCfg) *)

RECURSIVE includeFlags(_)
includeFlags(dirs) ==
    IF dirs = <<>> THEN <<>>
    ELSE split(format(gp["cc_incdir_pattern"], <<gp[Head(dirs)]>>))
         \o includeFlags(Tail(dirs))

defineFlag(name, k) == split(format(gp["cc_define2_pattern"], <<name, str(gp[k])>>))

\* C20: the resolved cflags are the flags the merge of the sources left,
\* followed by one include-path flag for each of the support, board, chip
\* and arch directories in that order, then one define flag for cpu_mhz
\* and one for warmup_heat carrying the resolved value; each flag is the
\* resolved cc_incdir_pattern / cc_define2_pattern formatted and split at
\* spaces.
C20_DerivedFlagsFollowMerged ==
    Resolved =>
        gp["cflags"] =
            merged(gp, args, cfgFile)["cflags"]
            \o includeFlags(<<"supportdir", "boarddir", "chipdir", "archdir">>)
            \o defineFlag(<<"CPU_MHZ">>, "cpu_mhz")
            \o defineFlag(<<"WARMUP_HEAT">>, "warmup_heat")

C20_Witness ==
    /\ Resolved
    /\ setIn("chip", "cc_incdir_pattern")
    /\ setIn("arch", "cflags")
    /\ SubSeq(gp["cflags"], 1, 2) = listVal("arch")
    /\ Len(gp["cflags"]) = 12

----------------------------------------------------------------------------
(* Properties of the build-mirror directories (checked under Spec) *)

\* compile_file was called for a unit whose object goes into directory d.
compiledInto(d) == \E u \in Units : ccRes[u] # "none" /\ mirrorOf(u) = d

\* compile_file was called for a unit whose object goes into d or into a
\* directory that os.makedirs can only create together with d.
compiledBelow(d) == \E u \in Units : ccRes[u] # "none" /\ d \in withParents(mirrorOf(u))

\* C21 as stated: every build-mirror directory the run created is one into
\* which the run called compile_file.
C21_MirrorsMadeOnlyForCompiles == \A d \in madeDirs : compiledInto(d)

\* C21: every build-mirror directory the run created is one into which the
\* run called compile_file, or the parent of such a directory: the arch
\* mirror is made along with the chip or board mirror even when there is
\* no archsupport.c.  A level without a support source file gets no mirror
\* of its own.
C21_MirrorsMadeOnlyForCompilesBelow == \A d \in madeDirs : compiledBelow(d)

C21_Witness ==
    /\ Completed
    /\ src["archsupport"] = NoFile /\ src["boardsupport"] = NoFile
    /\ ccRes["chipsupport"] # "none"
    /\ madeDirs = {"bd_supportdir", "bd_archdir", "bd_chipdir", "b1", "b2"}

----------------------------------------------------------------------------
(* Properties of main()'s success flag (checked under Spec) *)

anyFailure ==
    \/ supportRes = "failed"
    \/ \E b \in BenchSet : compiled[b] = "failed" \/ linked[b] = "failed"

\* C22: once compile_support has set main()'s flag "successful", a step
\* never takes the flag from False to True, and the closing message "All
\* benchmarks built successfully" is never in the log of a run in which
\* compile_support, a compile_benchmark or a link_benchmark returned False.
C22_SuccessFlagMonotone ==
    /\ [][(called("compile_support") /\ ~successful) => ~successful']_vars
    /\ []((\E i \in DOMAIN emitted : emitted[i] = AllBuilt) => ~anyFailure)

C22_Witness ==
    /\ Completed
    /\ supportRes = "failed"
    /\ \A b \in BenchSet : compiled[b] = "ok" /\ linked[b] = "ok"
    /\ ~successful
    /\ \A i \in DOMAIN emitted : emitted[i] # AllBuilt

----------------------------------------------------------------------------
(* Properties of the linker's argument vector (checked under Spec) *)

\* The tokens of argv between the output-name tokens and the user libraries.
linkInputs(b) ==
    SubSeq(ldArgs[b],
           2 + Len(gp["ldflags"]) + Len(split(format(gp["ld_output_pattern"], <<<<b>>>>))),
           Len(ldArgs[b]) - Len(gp["user_libs"]))

\* C23: the argument vector given to the linker of a benchmark is the
\* linker name, then every ldflag, then the tokens of the formatted output
\* pattern, then the link input objects and nothing else, then the user
\* libraries: the linker name is first and no object follows a user library.
C23_LinkArgvShape ==
    \A b \in BenchSet :
        ldRuns[b] > 0 =>
            /\ ldArgs[b][1] = gp["ld"]
            /\ SubSeq(ldArgs[b], 2, 1 + Len(gp["ldflags"])) = gp["ldflags"]
            /\ SubSeq(ldArgs[b], 2 + Len(gp["ldflags"]), 3 + Len(gp["ldflags"]))
                  = <<"-o", b>>
            /\ SubSeq(ldArgs[b], Len(ldArgs[b]) - Len(gp["user_libs"]) + 1,
                      Len(ldArgs[b])) = gp["user_libs"]
            /\ \A i \in DOMAIN linkInputs(b) : linkInputs(b)[i] \in expectedTokens(b)
            /\ \A i \in DOMAIN ldArgs[b] :
                  ldArgs[b][i] \in expectedTokens(b) =>
                      i <= Len(ldArgs[b]) - Len(gp["user_libs"])

C23_Witness ==
    /\ ldRuns["b1"] = 1
    /\ gp["ldflags"] = listVal("arch")
    /\ gp["user_libs"] = listVal("board")
    /\ Len(linkInputs("b1")) = 4
    /\ Len(ldArgs["b1"]) = 11

====
